---- MODULE Spec2Model ----
(***************************************************************************)
(* State-machine model of the Home component of src/app/page.tsx: the      *)
(* digest fetch (fetchNews / saveToHistory / loadHistory), the schedule    *)
(* panel (loadScheduleStatus / toggleSchedule), the browser-local history  *)
(* record, the SettingsModal component and formatNextRun.                  *)
(*                                                                         *)
(* Conventions.  A JavaScript value that may be undefined/null is a record *)
(* with a `type` field.  The status strings of the source start with the   *)
(* characters U+2713 and U+2717; they are written "[ok] " and "[x] "       *)
(* here.  An await is a process position: the handler is split at the     *)
(* await into a start action and a continuation action, and the gateway's *)
(* answer is the input of the continuation.                                *)
(***************************************************************************)
EXTENDS Integers, Sequences, FiniteSets, TLC

VARIABLES
    mounted,          \* the mount effect (lines 261-264) has run
    clock,            \* the system clock, epoch milliseconds (Date.now())
    storage,          \* localStorage['ai-news-digest-history']
    history,          \* useState history (line 251)
    digest,           \* useState digest (line 250)
    loading,          \* useState loading (line 248)
    statusMessage,    \* useState statusMessage (line 249)
    fetchInFlight,    \* number of callAIAgent calls awaiting their answer
    fetchHistory,     \* `history` as captured by the running fetchNews closure
    lastFetch,        \* what the fetchNews that ended last received
    fetchCalls,       \* number of fetchNews calls made so far
    saveCalls,        \* number of saveToHistory calls made so far
    schedule,         \* useState schedule (line 257)
    scheduleLoading,  \* useState scheduleLoading (line 258)
    executionLogs,    \* useState executionLogs (line 259)
    schedPc,          \* position of the running schedule operation
    schedInFlight,    \* number of schedule-gateway calls awaiting their answer
    toggle,           \* the running / last toggleSchedule call
    settingsOpen,     \* useState settingsOpen (line 254)
    form,             \* SettingsModal: slackChannel, deliveryTime, timezone,
                      \* categories (lines 102-110)
    modalStatus,      \* SettingsModal: statusMessage (line 111)
    closeTimers,      \* pending setTimeout callbacks of handleSave
    lastSave,         \* how the handleSave that ran last ended
    settingsStorage,  \* localStorage['ai-news-digest-settings']
    fmt               \* a call of formatNextRun: its input, the clock, its result

vars == <<mounted, clock, storage, history, digest, loading, statusMessage,
          fetchInFlight, fetchHistory, lastFetch, fetchCalls, saveCalls,
          schedule, scheduleLoading, executionLogs, schedPc, schedInFlight, toggle,
          settingsOpen, form, modalStatus, closeTimers, lastSave,
          settingsStorage, fmt>>

histVars == <<storage, history, digest, loading, statusMessage, fetchInFlight,
              fetchHistory, lastFetch, fetchCalls, saveCalls, clock>>

schedVars == <<schedule, scheduleLoading, executionLogs, schedPc,
               schedInFlight, toggle>>

modalVars == <<settingsOpen, form, modalStatus, closeTimers, lastSave,
               settingsStorage>>

homeVars == <<mounted, histVars, schedVars>>

-----------------------------------------------------------------------------
(* Bounds of the model and constants of the program *)

\* `.slice(0, 20)` of saveToHistory
HistoryCap == 20

\* `{ limit: 10 }` of loadScheduleStatus
LogLimit == 10

\* fetchNews calls explored by Spec, SpecClock and SpecSched
MaxFetches == 3

\* pending close timers of handleSave explored by SpecSettings
MaxTimers == 2

Min(a, b) == IF a < b THEN a ELSE b

\* the clock when the page is first opened: late enough for HistoryCap
\* earlier saves, one per millisecond
ClockStart == HistoryCap + 1

-----------------------------------------------------------------------------
(* Data *)

\* a JavaScript array / a value that is not an array (undefined, a string)
JsArray(items) == [isArray |-> TRUE, items |-> items]
NotArray == [isArray |-> FALSE, items |-> <<>>]

\* result values of the agent gateway (DigestData, lines 20-25, or less)
ResultUndefined ==
    [type |-> "undefined", digest_date |-> "", categories |-> NotArray,
     total_stories |-> 0, slack_posted |-> FALSE]
ResultEmptyObject ==
    [type |-> "object", digest_date |-> "", categories |-> NotArray,
     total_stories |-> 0, slack_posted |-> FALSE]
DigestA ==
    [type |-> "object", digest_date |-> "2024-01-01", categories |-> JsArray(<<>>),
     total_stories |-> 0, slack_posted |-> FALSE]
DigestB ==
    [type |-> "object", digest_date |-> "", categories |-> JsArray(<<"Breaking">>),
     total_stories |-> 1, slack_posted |-> TRUE]

\* useState<DigestData | null>(null)
NullDigest == ResultUndefined

AgentResults == {ResultUndefined, ResultEmptyObject, DigestA, DigestB}

\* what `await callAIAgent(...)` can produce: a returned response
\* { success, response?: { result }, error? } or a thrown value
Returned(success, result, error) ==
    [threw |-> FALSE, isError |-> FALSE, message |-> "",
     success |-> success, result |-> result, error |-> error]
Thrown(isError, message) ==
    [threw |-> TRUE, isError |-> isError, message |-> message,
     success |-> FALSE, result |-> ResultUndefined, error |-> ""]

AgentOutcomes ==
    {Returned(TRUE, r, "") : r \in AgentResults}
    \cup {Returned(FALSE, ResultUndefined, "agent timeout"),
          Returned(FALSE, ResultUndefined, ""),
          Thrown(TRUE, "network down"), Thrown(FALSE, "")}

AgentOutcomesValid == {Returned(TRUE, DigestA, ""), Returned(TRUE, DigestB, "")}

NoFetch == [done |-> FALSE, outcome |-> Thrown(FALSE, ""), wrote |-> FALSE]

\* new Date().toLocaleDateString() at clock reading t (en-US, UTC)
LocaleDateString(t) == "1/" \o ToString(1 + (t \div 86400000)) \o "/1970"

-----------------------------------------------------------------------------
(* localStorage and JSON *)

\* The stored value: getItem gives null ("null"), or a string that is empty
\* ("empty"), not JSON ("garbage"), JSON but no array ("object"), or a JSON
\* array ("array") whose text holds each entry as the tuple of its fields.
Stored(kind, items) == [kind |-> kind, items |-> items]

\* an entry written without its timestamp
SerializeEntryUntimed(e) == <<e.id, e.date, e.data, 0>>

\* the text of an entry in JSON.stringify(updated), line 290
SerializeEntry(e) == <<e.id, e.date, e.data, e.timestamp>>

\* an entry of JSON.parse(saved), line 270
ParseEntry(t) == [id |-> t[1], date |-> t[2], data |-> t[3], timestamp |-> t[4]]

\* JSON.stringify(updated), line 290
JSONstringify(list) ==
    Stored("array", [i \in 1..Len(list) |-> SerializeEntry(list[i])])

\* JSON.parse(saved), line 270, of a text that parses
JSONparse(s) == [i \in 1..Len(s.items) |-> ParseEntry(s.items[i])]

-----------------------------------------------------------------------------
(* History, lines 266-291 *)

\* newItem of saveToHistory: t1, t2 and t3 are its three readings of the clock
\* (Date.now(), new Date(), Date.now())
NewItem(digestData, t1, t2, t3) ==
    [id |-> ToString(t1),
     date |-> IF digestData.digest_date # "" THEN digestData.digest_date
              ELSE LocaleDateString(t2),
     data |-> digestData,
     timestamp |-> t3]

\* saveToHistory without the slice
UpdatedNoSlice(newItem, hist) == <<newItem>> \o hist

\* [newItem, ...history].slice(0, 20)
Updated(newItem, hist) ==
    SubSeq(<<newItem>> \o hist, 1, Min(Len(hist) + 1, HistoryCap))

\* the list loadHistory puts in the state, given the state's list
LoadedHistory(saved, current) ==
    IF saved.kind \in {"null", "empty"} THEN current
    ELSE IF saved.kind = "garbage" THEN current
    ELSE IF saved.kind = "array" THEN JSONparse(saved)
    ELSE current

\* a history written by n earlier saves, one per millisecond up to `before`
EarlierHistory(n, before) ==
    [i \in 1..n |-> NewItem(DigestA, before - i, before - i, before - i)]

-----------------------------------------------------------------------------
(* Schedule gateway values, line 5 *)

NullSchedule ==
    [type |-> "null", is_active |-> FALSE, cron_expression |-> "",
     next_run_time |-> ""]
ActiveSchedule ==
    [type |-> "object", is_active |-> TRUE, cron_expression |-> "0 10 * * *",
     next_run_time |-> "2024-01-02T10:00:00Z"]
PausedSchedule ==
    [type |-> "object", is_active |-> FALSE, cron_expression |-> "0 10 * * *",
     next_run_time |-> ""]

Log1 == [id |-> "x1", success |-> TRUE, executed_at |-> "2024-01-01T10:00:00Z"]

\* answers of getSchedule: { success, schedule? } or a thrown value
ScheduleOutcomes ==
    {[threw |-> FALSE, success |-> TRUE, schedule |-> ActiveSchedule],
     [threw |-> FALSE, success |-> TRUE, schedule |-> PausedSchedule],
     [threw |-> FALSE, success |-> TRUE, schedule |-> NullSchedule],
     [threw |-> FALSE, success |-> FALSE, schedule |-> NullSchedule],
     [threw |-> TRUE, success |-> FALSE, schedule |-> NullSchedule]}

\* answers of getScheduleLogs: { success, executions? } or a thrown value
LogsOutcomes ==
    {[threw |-> FALSE, success |-> TRUE, executions |-> JsArray(<<>>)],
     [threw |-> FALSE, success |-> TRUE, executions |-> JsArray(<<Log1>>)],
     [threw |-> FALSE, success |-> TRUE, executions |-> NotArray],
     [threw |-> FALSE, success |-> FALSE, executions |-> NotArray],
     [threw |-> TRUE, success |-> FALSE, executions |-> NotArray]}

\* answers of pauseSchedule / resumeSchedule: { success } or a thrown value
MutateOutcomes ==
    {[threw |-> FALSE, success |-> TRUE],
     [threw |-> FALSE, success |-> FALSE],
     [threw |-> TRUE, success |-> FALSE]}

\* a call on the schedule gateway
Call(fn, limit) == [fn |-> fn, limit |-> limit]

\* no toggleSchedule has been started
NoToggle ==
    [running |-> FALSE, started |-> FALSE, calls |-> <<>>,
     schedule |-> NullSchedule, logs |-> <<>>, result |-> "none",
     ended |-> "no"]

-----------------------------------------------------------------------------
(* Settings, lines 101-139 *)

\* the four category flags; the model edits the first one
Categories(breaking) ==
    [breaking |-> breaking, research |-> TRUE, trends |-> TRUE,
     startups |-> TRUE]

\* the useState defaults of SettingsModal, lines 102-110
DefaultSettings ==
    [slackChannel |-> "", deliveryTime |-> "10:00",
     timezone |-> "America/New_York", categories |-> Categories(TRUE)]

\* the records the form can hold
SettingsRecords ==
    [slackChannel : {"", "C0123"}, deliveryTime : {"10:00", "09:30"},
     timezone : {"America/New_York", "America/Chicago"},
     categories : {Categories(TRUE), Categories(FALSE)}]

\* The stored value: getItem gives null ("null"), a string that is not JSON
\* ("garbage"), or the JSON text of an object ("object") holding the fields
\* named in `has` with the values of `value`.
StoredSettings(kind, has, value) == [kind |-> kind, has |-> has, value |-> value]

SettingsFields == {"slackChannel", "deliveryTime", "timezone", "categories"}

NoSettings == StoredSettings("null", {}, DefaultSettings)

\* JSON.stringify(settings), line 133
StringifySettings(settings) == StoredSettings("object", SettingsFields, settings)

-----------------------------------------------------------------------------
(* formatNextRun, lines 378-408 *)

\* the argument of formatNextRun: null, undefined or a string; a string is
\* the empty string, a text that is no date ("not-a-date") or the ISO text
\* ("iso") of the instant `ms`, epoch milliseconds
NextRunInput(type, text, ms) == [type |-> type, text |-> text, ms |-> ms]

NullInput == NextRunInput("null", "", 0)

\* no call of formatNextRun
NoFormat == [input |-> NullInput, now |-> 0, done |-> FALSE, result |-> ""]

\* `!isoString`, line 379: null, undefined and the empty string
Falsy(input) == input.type # "string" \/ input.text = ""

\* a JavaScript number: an integer or NaN
Num(v) == [nan |-> FALSE, v |-> v]

NaN == [nan |-> TRUE, v |-> 0]

\* new Date(isoString).getTime(), lines 382 and 384: NaN for a text that is
\* no date; the constructor does not throw
GetTime(input) == IF input.text = "iso" THEN Num(input.ms) ELSE NaN

\* a - b
Minus(a, b) == IF a.nan \/ b.nan THEN NaN ELSE Num(a.v - b.v)

\* a < n: false for NaN
LessThan(a, n) == ~a.nan /\ a.v < n

\* a !== n: true for NaN
NotEqual(a, n) == a.nan \/ a.v # n

\* Math.floor(a / n), n positive
FloorDiv(a, n) == IF a.nan THEN NaN ELSE Num(a.v \div n)

\* a % n, n positive: the remainder has the sign of a
Remainder(a, n) ==
    IF a.nan THEN NaN
    ELSE Num(IF a.v >= 0 THEN a.v % n ELSE 0 - ((0 - a.v) % n))

\* `${a}`
NumberToString(a) == IF a.nan THEN "NaN" ELSE ToString(a.v)

\* 1000 * 60, line 389
MsPerMinute == 1000 * 60

\* 1000 * 60 * 60, lines 388-389
MsPerHour == 1000 * 60 * 60

MsPerDay == 24 * MsPerHour

\* the `s` of lines 392 and 394, appended to every count but one
PluralAboveOne(n) == IF LessThan(n, 2) THEN "" ELSE "s"

\* `${n !== 1 ? 's' : ''}`, lines 392 and 394
Plural(n) == IF NotEqual(n, 1) THEN "s" ELSE ""

MonthNames ==
    <<"Jan", "Feb", "Mar", "Apr", "May", "Jun",
      "Jul", "Aug", "Sep", "Oct", "Nov", "Dec">>

\* the months of 1970
MonthDays == <<31, 28, 31, 30, 31, 30, 31, 31, 30, 31, 30, 31>>

\* month and day of the month of the day `day` (from 0) of 1970, counting
\* from month m
RECURSIVE MonthAndDay(_, _)
MonthAndDay(day, m) ==
    IF day < MonthDays[m] THEN <<m, day + 1>>
    ELSE MonthAndDay(day - MonthDays[m], m + 1)

\* minute: '2-digit'
TwoDigit(n) == IF n < 10 THEN "0" \o ToString(n) ELSE ToString(n)

\* hour: 'numeric' with hour12: 1 to 12
Hour12(h) == IF h % 12 = 0 THEN 12 ELSE h % 12

\* the en-US rendering of lines 396-403 for an instant of 1970, the time
\* zone of the system taken as UTC: "Jan 21, 2:30 PM"
Absolute(ms) ==
    LET md == MonthAndDay(ms \div MsPerDay, 1)
        h == (ms % MsPerDay) \div MsPerHour
        mi == (ms % MsPerHour) \div MsPerMinute
    IN MonthNames[md[1]] \o " " \o ToString(md[2]) \o ", "
         \o ToString(Hour12(h)) \o ":" \o TwoDigit(mi) \o " "
         \o (IF h < 12 THEN "AM" ELSE "PM")

\* date.toLocaleString('en-US', options), line 403: the text "Invalid Date"
\* for an invalid date; the call does not throw
ToLocaleString(date) ==
    IF date.nan THEN "Invalid Date" ELSE Absolute(date.v)

\* formatNextRun(isoString) called when the clock shows `now`.  No statement
\* of the try block throws, so the catch of line 405 is never entered.
formatNextRun(input, now) ==
    IF Falsy(input) THEN "Not scheduled"
    ELSE LET date == GetTime(input)
             diffMs == Minus(date, Num(now))
             diffHours == FloorDiv(diffMs, MsPerHour)
             diffMins == FloorDiv(Remainder(diffMs, MsPerHour), MsPerMinute)
         IN IF LessThan(diffMs, 0) THEN "Past due"
            ELSE IF LessThan(diffHours, 1)
            THEN "In " \o NumberToString(diffMins) \o " minute"
                    \o Plural(diffMins)
            ELSE IF LessThan(diffHours, 24)
            THEN "In " \o NumberToString(diffHours) \o " hour"
                    \o Plural(diffHours)
            ELSE ToLocaleString(date)

\* the clocks at which formatNextRun is called
FormatNows == {ClockStart, ClockStart + MsPerMinute - 1, MsPerHour}

\* the differences between the instant and the clock: around 0, around the
\* minute, the hour and the day, and inside each range
FormatDiffs ==
    {0 - MsPerDay, 0 - MsPerHour, 0 - 1, 0, 1,
     MsPerMinute - 1, MsPerMinute, MsPerMinute + 1,
     2 * MsPerMinute - 1, 2 * MsPerMinute, 30 * MsPerMinute,
     MsPerHour - 1, MsPerHour, MsPerHour + 1,
     2 * MsPerHour - 1, 2 * MsPerHour, 5 * MsPerHour + 59 * MsPerMinute,
     MsPerDay - 1, MsPerDay, MsPerDay + 1,
     MsPerDay + 13 * MsPerHour + 5 * MsPerMinute,
     20 * MsPerDay + 14 * MsPerHour + 30 * MsPerMinute}

\* the arguments of formatNextRun when the clock shows `now`
FormatInputs(now) ==
    {NullInput, NextRunInput("undefined", "", 0),
     NextRunInput("string", "", 0), NextRunInput("string", "not-a-date", 0)}
    \cup {NextRunInput("string", "iso", now + d) : d \in FormatDiffs}

-----------------------------------------------------------------------------
(* Initial state: the component as constructed, lines 248-259 *)

InitialStorages ==
    {Stored("null", <<>>), Stored("empty", <<>>), Stored("garbage", <<>>),
     Stored("object", <<>>)}
    \cup {JSONstringify(EarlierHistory(n, ClockStart)) :
             n \in {HistoryCap - 1, HistoryCap}}

InitialStoragesEmpty == {Stored("null", <<>>)}

\* the useState defaults of Home
Constructed ==
    /\ mounted = FALSE
    /\ history = <<>>
    /\ digest = NullDigest
    /\ loading = FALSE
    /\ statusMessage = ""
    /\ fetchInFlight = 0
    /\ fetchHistory = <<>>
    /\ lastFetch = NoFetch
    /\ schedule = NullSchedule
    /\ scheduleLoading = FALSE
    /\ executionLogs = <<>>
    /\ schedPc = "idle"
    /\ schedInFlight = 0
    /\ toggle = NoToggle
    /\ settingsOpen = FALSE
    /\ form = DefaultSettings
    /\ modalStatus = ""
    /\ closeTimers = 0
    /\ lastSave = "none"

InitWith(storages) ==
    /\ Constructed
    /\ clock = ClockStart
    /\ storage \in storages
    /\ fetchCalls = 0
    /\ saveCalls = 0
    /\ settingsStorage = NoSettings
    /\ fmt = NoFormat

Init == InitWith(InitialStorages)

InitEmpty == InitWith(InitialStoragesEmpty)

\* the settings a store can hold when the page is opened: none, a text that
\* is no JSON, {}, {slackChannel}, {deliveryTime, categories}, a full record
InitialSettings ==
    {NoSettings,
     StoredSettings("garbage", {}, DefaultSettings),
     StoredSettings("object", {}, DefaultSettings),
     StoredSettings("object", {"slackChannel"},
                    [DefaultSettings EXCEPT !.slackChannel = "C0123"]),
     StoredSettings("object", {"deliveryTime", "categories"},
                    [DefaultSettings EXCEPT !.deliveryTime = "09:30",
                                            !.categories = Categories(FALSE)]),
     StringifySettings([DefaultSettings EXCEPT !.timezone = "America/Chicago"])}

InitSettings ==
    /\ Constructed
    /\ clock = ClockStart
    /\ storage = Stored("null", <<>>)
    /\ fetchCalls = 0
    /\ saveCalls = 0
    /\ settingsStorage \in InitialSettings
    /\ fmt = NoFormat

\* a call of formatNextRun about to be made
InitFormat ==
    /\ Constructed
    /\ clock \in FormatNows
    /\ storage = Stored("null", <<>>)
    /\ fetchCalls = 0
    /\ saveCalls = 0
    /\ settingsStorage = NoSettings
    /\ \E input \in FormatInputs(clock) :
          fmt = [NoFormat EXCEPT !.input = input]

InitClock ==
    InitWith({Stored("null", <<>>), JSONstringify(EarlierHistory(1, ClockStart))})

-----------------------------------------------------------------------------
(* Mount and reload *)

\* a click, a timer or a reload is a task of its own: it is handled only
\* when no promise continuation of the running task is left, so not between
\* the return of the loadScheduleStatus awaited at line 344 and line 346
BetweenTasks == schedPc \notin {"afterLoad", "afterLoadRejected"}

\* useEffect(() => { loadHistory(); loadScheduleStatus() }, []): loadHistory
\* runs whole, loadScheduleStatus up to its first await
Mount ==
    /\ ~mounted
    /\ mounted' = TRUE
    /\ history' = LoadedHistory(storage, history)
    /\ scheduleLoading' = TRUE
    /\ schedPc' = "getSchedule"
    /\ schedInFlight' = schedInFlight + 1
    /\ UNCHANGED <<clock, storage, digest, loading, statusMessage,
                   fetchInFlight, fetchHistory, lastFetch, fetchCalls,
                   saveCalls, schedule, executionLogs, toggle>>
    /\ UNCHANGED <<modalVars, fmt>>

\* the page is reloaded: the component is constructed anew, pending
\* continuations are gone, localStorage and the clock stay
Reload ==
    /\ BetweenTasks
    /\ mounted' = FALSE
    /\ history' = <<>>
    /\ digest' = NullDigest
    /\ loading' = FALSE
    /\ statusMessage' = ""
    /\ fetchInFlight' = 0
    /\ fetchHistory' = <<>>
    /\ lastFetch' = NoFetch
    /\ schedule' = NullSchedule
    /\ scheduleLoading' = FALSE
    /\ executionLogs' = <<>>
    /\ schedPc' = "idle"
    /\ schedInFlight' = 0
    /\ toggle' = NoToggle
    /\ settingsOpen' = FALSE
    /\ form' = DefaultSettings
    /\ modalStatus' = ""
    /\ closeTimers' = 0
    /\ lastSave' = "none"
    /\ UNCHANGED <<clock, storage, fetchCalls, saveCalls, settingsStorage, fmt>>

-----------------------------------------------------------------------------
(* fetchNews, lines 307-333 *)

\* the fetch button is rendered enabled: disabled={loading}, line 474
CanFetch == ~loading

\* result.success && result.response?.result, line 314
HasResult(o) == o.success /\ o.result.type # "undefined"

\* digestData && Array.isArray(digestData.categories), line 318
IsValidDigest(digestData) ==
    digestData.type # "undefined" /\ digestData.categories.isArray

\* error instanceof Error ? error.message : 'Unknown error', line 329
ErrorText(isError, message) == IF isError THEN message ELSE "Unknown error"

\* result.error || 'Unknown error', line 326
OrUnknown(error) == IF error # "" THEN error ELSE "Unknown error"

\* the messages localStorage.setItem throws with when the quota is exceeded:
\* the text is the platform's
QuotaMessages ==
    {"The quota has been exceeded.", "Setting the value exceeded the quota",
     "Failed to execute 'setItem' on 'Storage': Setting the value of 'ai-news-digest-history' exceeded the quota."}

\* the message is shown as an error: statusMessage &&
\* !statusMessage.startsWith(U+2713), lines 491-492
StartsWith(s, prefix) ==
    Len(s) >= Len(prefix) /\ SubSeq(s, 1, Len(prefix)) = prefix
IsErrorStatus(msg) == msg # "" /\ ~StartsWith(msg, "[ok]")

\* the status message fetchNews ends with; wrote: setItem did not throw,
\* message: the text of what it threw
FetchStatus(o, wrote, message) ==
    IF o.threw THEN "[x] Error: " \o ErrorText(o.isError, o.message)
    ELSE IF HasResult(o) THEN
        IF IsValidDigest(o.result) THEN
            IF wrote THEN "[ok] News digest fetched successfully"
            ELSE "[x] Error: " \o ErrorText(TRUE, message)
        ELSE "[x] Invalid response format"
    ELSE "[x] Failed to fetch news: " \o OrUnknown(o.error)

\* fetchNews saving without the validation of line 318
SavesUnvalidated(o) == ~o.threw /\ HasResult(o)

\* fetchNews reaches saveToHistory
Saves(o) == ~o.threw /\ HasResult(o) /\ IsValidDigest(o.result)

\* onClick={fetchNews}: lines 308-312, up to the await
FetchStart(maxFetches) ==
    /\ BetweenTasks
    /\ CanFetch
    /\ fetchCalls < maxFetches
    /\ fetchCalls' = fetchCalls + 1
    /\ loading' = TRUE
    /\ statusMessage' = ""
    /\ fetchInFlight' = fetchInFlight + 1
    /\ fetchHistory' = history
    /\ lastFetch' = NoFetch
    /\ UNCHANGED <<mounted, clock, storage, history, digest, saveCalls>>
    /\ UNCHANGED schedVars
    /\ UNCHANGED <<modalVars, fmt>>

\* lines 314-332 with saveToHistory (lines 280-291), after the await: the
\* gateway answered o; the clock moved by dt since the click and by skew
\* between the readings of saveToHistory; wrote: setItem did not throw,
\* message: the text of what it threw
FetchDone(outcomes, elapsed, skews, writes) ==
    /\ fetchInFlight > 0
    /\ \E o \in outcomes, dt \in elapsed, skew \in skews, wrote \in writes,
          message \in QuotaMessages :
        LET t1 == clock + dt
            t3 == t1 + skew
            updated == Updated(NewItem(o.result, t1, t1, t3), fetchHistory)
        IN  /\ Saves(o) \/ (skew = 0 /\ wrote)
            /\ clock' = t3
            /\ digest' = IF Saves(o) THEN o.result ELSE digest
            /\ history' = IF Saves(o) THEN updated ELSE history
            /\ storage' = IF Saves(o) /\ wrote THEN JSONstringify(updated)
                          ELSE storage
            /\ saveCalls' = IF Saves(o) THEN saveCalls + 1 ELSE saveCalls
            /\ statusMessage' = FetchStatus(o, wrote, message)
            /\ lastFetch' = [done |-> TRUE, outcome |-> o, wrote |-> wrote]
    /\ loading' = FALSE
    /\ fetchInFlight' = fetchInFlight - 1
    /\ UNCHANGED <<mounted, fetchHistory, fetchCalls>>
    /\ UNCHANGED schedVars
    /\ UNCHANGED <<modalVars, fmt>>

-----------------------------------------------------------------------------
(* loadScheduleStatus and toggleSchedule, lines 293-347 *)

\* the toggle button without its disabled attribute
CanToggleWhileLoading == schedule.type # "null"

\* the toggle button is rendered ({schedule ? ...}, line 506) and enabled
\* (disabled={scheduleLoading}, line 532)
CanToggle == schedule.type # "null" /\ ~scheduleLoading

\* toggleSchedule with the two branches of lines 339-341 exchanged
MutatingCallSwapped(current) ==
    IF current.is_active THEN Call("resumeSchedule", 0)
    ELSE Call("pauseSchedule", 0)

\* schedule.is_active ? pauseSchedule(...) : resumeSchedule(...), lines 339-341
MutatingCall(current) ==
    IF current.is_active THEN Call("pauseSchedule", 0)
    ELSE Call("resumeSchedule", 0)

\* toggleSchedule re-fetching whatever pause / resume answered
RefetchesAlways(o) == TRUE

\* if (result.success), line 343
Refetches(o) == o.success

\* what pauseSchedule / resumeSchedule answered
Answer(o) ==
    IF o.threw THEN "threw" ELSE IF o.success THEN "success" ELSE "failure"

\* the call is recorded when a toggleSchedule is running
Issued(t, call) == IF t.running THEN [t EXCEPT !.calls = @ \o <<call>>] ELSE t

\* the running toggleSchedule, if any, ends: it returned or it rejected
Ended(t, how) ==
    IF t.running THEN [t EXCEPT !.running = FALSE, !.ended = how] ELSE t

\* an awaited gateway call threw: the async function rejects where it stands,
\* nothing after the await runs
Rejects ==
    /\ schedPc' = "idle"
    /\ schedInFlight' = schedInFlight - 1
    /\ UNCHANGED <<schedule, scheduleLoading, executionLogs>>

\* loadScheduleStatus ends, returning or rejecting: the toggleSchedule that
\* awaits it (line 344) goes on in a later continuation
LoadEnds(how) ==
    /\ schedPc' = IF ~toggle.running THEN "idle"
                  ELSE IF how = "returned" THEN "afterLoad"
                  ELSE "afterLoadRejected"
    /\ schedInFlight' = schedInFlight - 1
    /\ toggle' = toggle

\* onClick={toggleSchedule}: lines 336-341, up to the await
ToggleStart ==
    /\ BetweenTasks
    /\ CanToggle
    /\ IF schedule.type = "null"
       THEN UNCHANGED schedVars
       ELSE /\ scheduleLoading' = TRUE
            /\ schedPc' = "mutate"
            /\ schedInFlight' = schedInFlight + 1
            /\ toggle' = [running |-> TRUE, started |-> TRUE,
                          calls |-> <<MutatingCall(schedule)>>,
                          schedule |-> schedule, logs |-> executionLogs,
                          result |-> "none", ended |-> "no"]
            /\ UNCHANGED <<schedule, executionLogs>>
    /\ UNCHANGED mounted
    /\ UNCHANGED histVars
    /\ UNCHANGED <<modalVars, fmt>>

\* lines 343-346 after pauseSchedule / resumeSchedule answered o; on success
\* loadScheduleStatus runs up to its first await (lines 294-295)
MutateDone(outcomes) ==
    /\ schedPc = "mutate"
    /\ \E o \in outcomes :
        LET answered == [toggle EXCEPT !.result = Answer(o)]
        IN  IF o.threw THEN
                /\ Rejects
                /\ toggle' = Ended(answered, "rejected")
            ELSE IF Refetches(o) THEN
                /\ scheduleLoading' = TRUE
                /\ schedPc' = "getSchedule"
                /\ schedInFlight' = schedInFlight
                /\ toggle' = Issued(answered, Call("getSchedule", 0))
                /\ UNCHANGED <<schedule, executionLogs>>
            ELSE
                /\ scheduleLoading' = FALSE
                /\ schedPc' = "idle"
                /\ schedInFlight' = schedInFlight - 1
                /\ toggle' = Ended(answered, "returned")
                /\ UNCHANGED <<schedule, executionLogs>>
    /\ UNCHANGED mounted
    /\ UNCHANGED histVars
    /\ UNCHANGED <<modalVars, fmt>>

\* lines 296-300 after getSchedule answered o, up to the next await
GetScheduleDone(outcomes) ==
    /\ schedPc = "getSchedule"
    /\ \E o \in outcomes :
        IF o.threw THEN
            /\ LoadEnds("rejected")
            /\ UNCHANGED <<schedule, scheduleLoading, executionLogs>>
        ELSE
            /\ schedule' = IF o.success /\ o.schedule.type # "null"
                           THEN o.schedule ELSE schedule
            /\ schedPc' = "getScheduleLogs"
            /\ schedInFlight' = schedInFlight
            /\ toggle' = Issued(toggle, Call("getScheduleLogs", LogLimit))
            /\ UNCHANGED <<scheduleLoading, executionLogs>>
    /\ UNCHANGED mounted
    /\ UNCHANGED histVars
    /\ UNCHANGED <<modalVars, fmt>>

\* lines 301-304 after getScheduleLogs answered o
GetLogsDone(outcomes) ==
    /\ schedPc = "getScheduleLogs"
    /\ \E o \in outcomes :
        IF o.threw THEN
            /\ LoadEnds("rejected")
            /\ UNCHANGED <<schedule, scheduleLoading, executionLogs>>
        ELSE
            /\ executionLogs' = IF o.success /\ o.executions.isArray
                                THEN o.executions.items ELSE executionLogs
            /\ scheduleLoading' = FALSE
            /\ LoadEnds("returned")
            /\ UNCHANGED schedule
    /\ UNCHANGED mounted
    /\ UNCHANGED histVars
    /\ UNCHANGED <<modalVars, fmt>>

\* toggleSchedule goes on after `await loadScheduleStatus()`, line 344: line
\* 346 when loadScheduleStatus returned; when it rejected, toggleSchedule
\* rejects there
ToggleResumes ==
    /\ schedPc \in {"afterLoad", "afterLoadRejected"}
    /\ schedPc' = "idle"
    /\ scheduleLoading' = IF schedPc = "afterLoad" THEN FALSE
                          ELSE scheduleLoading
    /\ toggle' = Ended(toggle, IF schedPc = "afterLoad" THEN "returned"
                               ELSE "rejected")
    /\ UNCHANGED <<schedule, executionLogs, schedInFlight>>
    /\ UNCHANGED mounted
    /\ UNCHANGED histVars
    /\ UNCHANGED <<modalVars, fmt>>

-----------------------------------------------------------------------------
(* SettingsModal, lines 101-139 *)

\* parsed.field || fallback, lines 120-122: the stored value when the field
\* is there and is not the empty string
OrDefault(saved, field, fallback) ==
    IF field \in saved.has /\ saved.value[field] # ""
    THEN saved.value[field] ELSE fallback

\* the form after the load effect, lines 113-129; current: the form before
LoadSettings(saved, current) ==
    IF saved.kind = "object"
    THEN [slackChannel |-> OrDefault(saved, "slackChannel", ""),
          deliveryTime |-> OrDefault(saved, "deliveryTime", "10:00"),
          timezone |-> OrDefault(saved, "timezone", "America/New_York"),
          categories |-> IF "categories" \in saved.has
                         THEN saved.value.categories ELSE current.categories]
    ELSE current

\* onClick={() => setSettingsOpen(true)}, line 424, and the effect of
\* SettingsModal on isOpen, lines 113-129
OpenSettings ==
    /\ BetweenTasks
    /\ ~settingsOpen
    /\ settingsOpen' = TRUE
    /\ form' = LoadSettings(settingsStorage, form)
    /\ UNCHANGED <<modalStatus, closeTimers, lastSave, settingsStorage, fmt>>
    /\ UNCHANGED homeVars

\* the close button of the modal: onClick={onClose}, line 149
CloseSettings ==
    /\ BetweenTasks
    /\ settingsOpen
    /\ settingsOpen' = FALSE
    /\ UNCHANGED <<form, modalStatus, closeTimers, lastSave, settingsStorage,
                   fmt>>
    /\ UNCHANGED homeVars

\* the onChange handlers of the form, lines 162, 181, 189, 218
EditSettings ==
    /\ BetweenTasks
    /\ settingsOpen
    /\ \E r \in SettingsRecords :
        /\ Cardinality({f \in SettingsFields : r[f] # form[f]}) = 1
        /\ form' = r
    /\ UNCHANGED <<settingsOpen, modalStatus, closeTimers, lastSave,
                   settingsStorage, fmt>>
    /\ UNCHANGED homeVars

\* handleSave, lines 131-139, up to the setTimeout; wrote: setItem (line
\* 133) did not throw.  handleSave catches nothing: when setItem throws,
\* lines 134-138 do not run
HandleSave ==
    /\ BetweenTasks
    /\ settingsOpen
    /\ closeTimers < MaxTimers
    /\ \E wrote \in BOOLEAN :
        IF wrote
        THEN /\ settingsStorage' = StringifySettings(form)
             /\ modalStatus' = "Settings saved successfully"
             /\ closeTimers' = closeTimers + 1
             /\ lastSave' = "written"
        ELSE /\ lastSave' = "threw"
             /\ UNCHANGED <<settingsStorage, modalStatus, closeTimers>>
    /\ UNCHANGED <<settingsOpen, form, fmt>>
    /\ UNCHANGED homeVars

\* the setTimeout callback of handleSave, lines 135-138
SaveTimerFires ==
    /\ BetweenTasks
    /\ closeTimers > 0
    /\ closeTimers' = closeTimers - 1
    /\ modalStatus' = ""
    /\ settingsOpen' = FALSE
    /\ UNCHANGED <<form, lastSave, settingsStorage, fmt>>
    /\ UNCHANGED homeVars

-----------------------------------------------------------------------------
(* formatNextRun, lines 378-408, called by the schedule panel, line 525 *)

RenderNextRun ==
    /\ ~fmt.done
    /\ fmt' = [fmt EXCEPT !.now = clock, !.done = TRUE,
                          !.result = formatNextRun(fmt.input, clock)]
    /\ UNCHANGED <<homeVars, modalVars>>

-----------------------------------------------------------------------------
(* Specifications *)

\* a schedule gateway that answers every call with success
ScheduleOutcomesOk == {o \in ScheduleOutcomes : o.success /\ o.schedule.is_active}
LogsOutcomesOk == {o \in LogsOutcomes : o.success /\ o.executions.items # <<>>}
MutateOutcomesOk == {o \in MutateOutcomes : o.success}

\* Spec: every answer of the agent gateway, every stored history and every
\* outcome of the storage write, fetches one millisecond apart; the schedule
\* gateway answers with success
Next ==
    \/ Mount
    \/ Reload
    \/ FetchStart(MaxFetches)
    \/ FetchDone(AgentOutcomes, {1}, {0}, BOOLEAN)
    \/ ToggleStart
    \/ MutateDone(MutateOutcomesOk)
    \/ GetScheduleDone(ScheduleOutcomesOk)
    \/ GetLogsDone(LogsOutcomesOk)
    \/ ToggleResumes

Spec == Init /\ [][Next]_vars

\* SpecClock: successful fetches under every reading of the clock: between
\* two readings it advances, stands still or was set back
NextClock ==
    \/ Mount
    \/ Reload
    \/ FetchStart(MaxFetches)
    \/ FetchDone(AgentOutcomesValid, {-1, 0, 1}, {0, 1}, {TRUE})
    \/ ToggleStart
    \/ MutateDone(MutateOutcomesOk)
    \/ GetScheduleDone(ScheduleOutcomesOk)
    \/ GetLogsDone(LogsOutcomesOk)
    \/ ToggleResumes

SpecClock == InitClock /\ [][NextClock]_vars

\* SpecSched: every answer of the schedule gateway and of the agent gateway,
\* from an empty store
NextSched ==
    \/ Mount
    \/ Reload
    \/ FetchStart(MaxFetches)
    \/ FetchDone(AgentOutcomes, {1}, {0}, BOOLEAN)
    \/ ToggleStart
    \/ MutateDone(MutateOutcomes)
    \/ GetScheduleDone(ScheduleOutcomes)
    \/ GetLogsDone(LogsOutcomes)
    \/ ToggleResumes

SpecSched == InitEmpty /\ [][NextSched]_vars

\* SpecSettings: the settings modal from every stored settings value: it is
\* opened, edited, saved and closed, and the page is reloaded
NextSettings ==
    \/ Mount
    \/ Reload
    \/ OpenSettings
    \/ CloseSettings
    \/ EditSettings
    \/ HandleSave
    \/ SaveTimerFires

SpecSettings == InitSettings /\ [][NextSettings]_vars

\* formatNextRun on its own
NextFormat == RenderNextRun

SpecFormat == InitFormat /\ [][NextFormat]_vars

-----------------------------------------------------------------------------
(* Claims on the history *)

\* the answer is a success whose result has an array-typed categories field
SuccessWithCategories(o) ==
    ~o.threw /\ o.success /\ o.result.type = "object"
    /\ o.result.categories.isArray

\* a fetchNews call completes in this step
FetchCompletes == lastFetch'.done /\ fetchInFlight' = fetchInFlight - 1

\* hist2 is hist1 with one entry put in front, cut at the cap
Prepended(hist1, hist2) ==
    /\ Len(hist2) = Min(Len(hist1) + 1, HistoryCap)
    /\ \A i \in 2..Len(hist2) : hist2[i] = hist1[i - 1]

\* C1: a completed fetchNews whose answer is a success with a categories
\* array calls saveToHistory exactly once: one new entry, carrying the
\* returned digest, is put in front of the history that fetchNews read, the
\* written store holds that list and the current digest is the returned
\* object; every other completed fetchNews leaves history, store and current
\* digest as they were.
C1_SaveExactlyOncePerValidFetch ==
    [][FetchCompletes =>
        IF SuccessWithCategories(lastFetch'.outcome)
        THEN /\ saveCalls' = saveCalls + 1
             /\ Prepended(fetchHistory, history')
             /\ history'[1].data = lastFetch'.outcome.result
             /\ digest' = lastFetch'.outcome.result
             /\ lastFetch'.wrote =>
                   storage'.kind = "array" /\ JSONparse(storage') = history'
        ELSE /\ saveCalls' = saveCalls
             /\ history' = history
             /\ storage' = storage
             /\ digest' = digest]_vars

\* a valid fetch has been saved on top of a loaded history, and a fetch
\* with a malformed result has ended after it
C1_Witness ==
    /\ lastFetch.done
    /\ lastFetch.outcome = Returned(TRUE, ResultEmptyObject, "")
    /\ saveCalls = 1
    /\ Len(history) = HistoryCap
    /\ history[1].data = DigestB
    /\ digest = DigestB

\* the list in the store, as loadHistory would read it
PersistedList == IF storage.kind = "array" THEN JSONparse(storage) ELSE <<>>

\* C2: the history in memory and the list in the store never hold more than
\* 20 entries.
C2_AtMostTwentyEntries ==
    /\ Len(history) <= HistoryCap
    /\ Len(PersistedList) <= HistoryCap

\* two saves on a loaded history of 19 entries: the second one drops an entry
C2_Witness ==
    /\ saveCalls = 2
    /\ Len(history) = HistoryCap
    /\ Len(PersistedList) = HistoryCap
    /\ history[HistoryCap].id = ToString(ClockStart - (HistoryCap - 1) + 1)

\* C3: each save puts the new entry at position 0 and moves the entries
\* that were in the history, unchanged and in order, one position down,
\* dropping only those past position 20.
C3_NewestFirst ==
    [][saveCalls' = saveCalls + 1 =>
          /\ Prepended(history, history')
          /\ history'[1].timestamp = clock'
          /\ history'[1].id = ToString(clock')]_vars

-----------------------------------------------------------------------------
(* Claims on the outcome of fetchNews *)

\* the status message is one of the two gateway-failure messages
IsGatewayFailureStatus(msg) ==
    \/ StartsWith(msg, "[x] Failed to fetch news: ")
    \/ StartsWith(msg, "[x] Error: ")

\* C4: a success whose result is absent or has no categories array is
\* reported as 'Invalid response format'; a gateway-failure message is
\* reported exactly when the gateway answered without success or threw
\* (stated for the fetches in which no storage write failed).
C4_OutcomeClassification ==
    (lastFetch.done /\ lastFetch.wrote) =>
        LET o == lastFetch.outcome
        IN  /\ (~o.threw /\ o.success /\ ~SuccessWithCategories(o))
                  => statusMessage = "[x] Invalid response format"
            /\ IsGatewayFailureStatus(statusMessage) <=> (o.threw \/ ~o.success)

-----------------------------------------------------------------------------
(* Claims on toggleSchedule *)

IsMutating(call) == call.fn \in {"pauseSchedule", "resumeSchedule"}

\* C5: a toggleSchedule issues exactly one mutating call, pauseSchedule when
\* the schedule it was started on is active and resumeSchedule otherwise,
\* and once that call answered with success the schedule is fetched again,
\* and the toggle returns only after the logs were fetched with limit 10.
C5_OneMutatingCallThenRefetch ==
    toggle.started =>
        /\ Len(toggle.calls) >= 1
        /\ toggle.calls[1].fn = IF toggle.schedule.is_active
                                THEN "pauseSchedule" ELSE "resumeSchedule"
        /\ \A i \in 2..Len(toggle.calls) : ~IsMutating(toggle.calls[i])
        /\ toggle.result = "success" =>
              Len(toggle.calls) >= 2 /\ toggle.calls[2] = Call("getSchedule", 0)
        /\ (toggle.result = "success" /\ toggle.ended = "returned") =>
              /\ Len(toggle.calls) = 3
              /\ toggle.calls[3] = Call("getScheduleLogs", 10)

\* a toggle of an active schedule and one of a paused schedule have returned
\* after the re-fetch
C5_Witness ==
    /\ toggle.started
    /\ toggle.result = "success"
    /\ toggle.ended = "returned"
    /\ toggle.schedule.is_active
    /\ toggle.calls = <<Call("pauseSchedule", 0), Call("getSchedule", 0),
                        Call("getScheduleLogs", 10)>>
    /\ schedule = PausedSchedule

\* the pause / resume call of the toggle answered without success or threw
ToggleFailed == toggle.started /\ toggle.result \in {"failure", "threw"}

\* C6: when the pause / resume call of a toggle fails, the schedule and the
\* logs in the state are those of before the toggle and the toggle issues
\* no other gateway call.
C6_FailedToggleChangesNothing ==
    ToggleFailed =>
        /\ schedule = toggle.schedule
        /\ executionLogs = toggle.logs
        /\ Len(toggle.calls) = 1
        /\ ~toggle.running
        /\ schedPc = "idle" /\ schedInFlight = 0

\* a toggle of a loaded schedule with loaded logs has failed
C6_Witness ==
    /\ ToggleFailed
    /\ toggle.result = "failure"
    /\ toggle.ended = "returned"
    /\ schedule = ActiveSchedule
    /\ executionLogs = <<Log1>>

-----------------------------------------------------------------------------
(* Claims on failures and on the controls *)

\* C7: once an action has ended, by failure too, its loading flag is false
\* and its control can be used again.
C7_FailureLeavesRetriable ==
    /\ fetchInFlight = 0 => ~loading
    /\ (mounted /\ schedPc = "idle") => ~scheduleLoading

\* the fetchNews that ended last failed / succeeded
FetchFailed == lastFetch.done /\ ~SuccessWithCategories(lastFetch.outcome)
FetchSucceeded ==
    lastFetch.done /\ SuccessWithCategories(lastFetch.outcome) /\ lastFetch.wrote

\* C8: a failed fetchNews and a failed toggleSchedule end with an error
\* status message shown, a successful fetchNews ends with none.
C8_ErrorsAreSurfaced ==
    /\ FetchFailed => IsErrorStatus(statusMessage)
    /\ FetchSucceeded => ~IsErrorStatus(statusMessage)
    /\ (ToggleFailed /\ ~toggle.running /\ fetchInFlight = 0)
          => IsErrorStatus(statusMessage)

\* C9: per action at most one gateway call is in flight; while one is, the
\* loading flag of the action is true and its control cannot start it again.
C9_OneCallInFlightPerAction ==
    /\ fetchInFlight <= 1
    /\ schedInFlight <= 1
    /\ fetchInFlight > 0 => loading /\ ~CanFetch
    /\ schedInFlight > 0 => scheduleLoading /\ ~CanToggle
    /\ toggle.running => (schedInFlight = 1 \/ ~BetweenTasks)
    /\ (schedPc # "idle" /\ BetweenTasks) <=> (schedInFlight = 1)

\* a fetch and a toggle are both awaiting their gateway
C9_Witness ==
    /\ fetchInFlight = 1 /\ loading
    /\ toggle.running /\ schedInFlight = 1 /\ scheduleLoading
    /\ schedPc = "getScheduleLogs"

\* C10: no two entries of the history have the same id.
C10_UniqueIds ==
    \A i, j \in 1..Len(history) : i # j => history[i].id # history[j].id

-----------------------------------------------------------------------------
(* Claims on the settings *)

\* the record the stored settings stand for: the stored fields, the default
\* of each field that is not stored, all defaults without a JSON object
SettingsWithDefaults(saved) ==
    IF saved.kind # "object" THEN DefaultSettings
    ELSE [slackChannel |-> IF "slackChannel" \in saved.has
                           THEN saved.value.slackChannel
                           ELSE DefaultSettings.slackChannel,
          deliveryTime |-> IF "deliveryTime" \in saved.has
                           THEN saved.value.deliveryTime
                           ELSE DefaultSettings.deliveryTime,
          timezone |-> IF "timezone" \in saved.has
                       THEN saved.value.timezone
                       ELSE DefaultSettings.timezone,
          categories |-> IF "categories" \in saved.has
                         THEN saved.value.categories
                         ELSE DefaultSettings.categories]

\* C11: every opening of the settings modal shows the stored settings with
\* the default of each field that is not stored, and the full default record
\* when the key is missing or holds no JSON.
C11_LoadYieldsDefaults ==
    [][(~settingsOpen /\ settingsOpen')
          => form' = SettingsWithDefaults(settingsStorage)]_vars

-----------------------------------------------------------------------------
(* Claims on formatNextRun *)

\* the instant of the call is a date
Parsed == fmt.input.type = "string" /\ fmt.input.text = "iso"

\* a string that is not empty and does not parse to a date
Unparsable ==
    fmt.input.type = "string" /\ fmt.input.text \notin {"", "iso"}

\* C12: formatNextRun returns "Not scheduled" for a null or absent input and
\* exactly "Invalid date" for every string that does not parse to a date.
C12_Sentinels ==
    fmt.done =>
        /\ fmt.input.type \in {"null", "undefined"}
              => fmt.result = "Not scheduled"
        /\ Unparsable => fmt.result = "Invalid date"

\* "In N unit", with an `s` unless N is 1
Counted(n, unit) ==
    "In " \o ToString(n) \o " " \o unit \o (IF n = 1 THEN "" ELSE "s")

\* C13: with d the instant minus the clock, the result is "Past due" exactly
\* when d < 0, "In N minute(s)" with N = floor(d / 60000) when d is under an
\* hour, "In N hour(s)" with N = floor(d / 3600000) when d is under a day,
\* singular exactly when N = 1, and the absolute rendering from a day on.
C13_RelativeOrAbsolute ==
    (fmt.done /\ Parsed) =>
        LET d == fmt.input.ms - fmt.now
        IN /\ fmt.result = "Past due" <=> d < 0
           /\ (0 <= d /\ d < 3600000)
                 => fmt.result = Counted(d \div 60000, "minute")
           /\ (3600000 <= d /\ d < 24 * 3600000)
                 => fmt.result = Counted(d \div 3600000, "hour")
           /\ d >= 24 * 3600000
                 => /\ fmt.result = Absolute(fmt.input.ms)
                    /\ ~StartsWith(fmt.result, "In ")

\* an instant exactly a day ahead has been rendered, at 01:00 of January 2
C13_Witness ==
    /\ fmt.done
    /\ Parsed
    /\ fmt.input.ms - fmt.now = 24 * 3600000
    /\ fmt.result = "Jan 2, 1:00 AM"

-----------------------------------------------------------------------------
(* Claims on the store and the history in memory *)

\* a step in which saveToHistory runs
SaveStep == saveCalls' = saveCalls + 1

\* C14 as stated: after every saveToHistory the list in the store equals the
\* history in memory, also when localStorage.setItem throws.
C14_StoreEqualsHistoryAfterSave ==
    [][SaveStep => PersistedList' = history']_vars

\* C14: after every saveToHistory whose write succeeds the list in the store
\* equals the history in memory; when the write fails the history in memory
\* has the new entry in front and the store keeps what it held; loadHistory
\* on a component whose history is still empty, as after a reload, puts the
\* list of the store in the history.
C14_StoreFollowsSuccessfulSaves ==
    [][/\ (SaveStep /\ lastFetch'.wrote) => PersistedList' = history'
       /\ (SaveStep /\ ~lastFetch'.wrote)
             => /\ storage' = storage
                /\ history'[1].data = lastFetch'.outcome.result
                /\ history' # PersistedList'
       /\ (~mounted /\ mounted' /\ history = <<>>)
             => history' = PersistedList]_vars

\* two saves from an empty store, the second one written: the store holds
\* the two entries of the history in memory
C14_Witness ==
    /\ mounted
    /\ saveCalls = 2
    /\ lastFetch.done
    /\ lastFetch.wrote
    /\ Len(history) = 2
    /\ PersistedList = history

====
